---------------------------- MODULE Spec2Model ----------------------------
(***************************************************************************)
(* A model of the EmailGenerator component of frontend/src/app.jsx: its    *)
(* React state (activeTab, formData, generatedEmail, loading,              *)
(* notification), its handlers, the continuations of its two fetch calls   *)
(* and the setTimeout callbacks scheduled by showNotification.             *)
(*                                                                         *)
(* Text the code trims is a sequence of one-character strings, so that     *)
(* String.prototype.trim is computed and not assumed.  Text the code only  *)
(* copies or tests for emptiness is a TLA+ string.  An optional value      *)
(* (null / undefined in the code) is a sequence of length 0 or 1.          *)
(*                                                                         *)
(* Handlers are modelled at the handler boundary: an action is one call    *)
(* of the handler, whatever markup triggers it.  The two awaits of a       *)
(* request (fetch, response.json) touch no component state between them,   *)
(* so the continuation after them is one step.                             *)
(***************************************************************************)
EXTENDS Integers, Sequences, FiniteSets, TLC

VARIABLES
    activeTab,       \* useState('generate')
    formData,        \* useState({prompt, groqApiKey, recipients, ...})
    generatedEmail,  \* useState(null): Null or Some(parsed response body)
    loading,         \* useState(false)
    notification,    \* useState(null): Null or Some([message, type])
    timers,          \* pending setTimeout callbacks: timers[r] = how many are due in r ticks
    inflight,        \* fetch calls issued and not yet settled, per endpoint
    age,             \* history: ticks since the visible notification was raised (capped)
    last             \* history: the step taken last, with what it sent or received

vars == <<activeTab, formData, generatedEmail, loading, notification, timers,
          inflight, age, last>>

-----------------------------------------------------------------------------
(* Bounds of the model *)

\* Ticks in one expiry window: a tick is NotificationMs / TicksPerWindow ms.
TicksPerWindow == 2
\* setTimeout callbacks that may be pending at once.
MaxTimers == 2
\* fetch calls that may be outstanding at once.
MaxInFlight == 2
\* Slots of the recipient list.
MaxRecipients == 2

\* setTimeout(..., 5000)
NotificationMs == 5000

-----------------------------------------------------------------------------
(* Values *)

Null == <<>>
Some(v) == <<v>>

\* The characters String.prototype.trim strips, among those of the alphabet.
WhiteSpace == {" "}

\* '' and a few texts around it: whitespace only, plain, padded.
TextValues == {<<>>, <<" ">>, <<"a">>, <<" ", "a", " ">>}

\* Recipient entries: blank, whitespace only, and two distinct addresses.
RecipientValues == {<<>>, <<" ">>, <<"a">>, <<"b">>}

Tabs == {"generate", "preview", "send"}

\* The literals of the notifications.
MsgNeedPromptAndKey == "Please provide both a prompt and Groq API key"
MsgGenerated == "Email generated successfully!"
MsgGenerateFailed == "Failed to generate email. Please check your API key and try again."
MsgNeedRecipient == "Please add at least one recipient email"
MsgNeedSender == "Please provide sender email and password"
MsgSendFailed == "Failed to send email"

\* Messages of the errors the runtime itself throws.
MsgFetchRejected == "Failed to fetch"
MsgJsonSyntax == "Unexpected end of JSON input"
MsgNoLength == "Cannot read properties of undefined (reading 'length')"

-----------------------------------------------------------------------------
(* Pure helpers *)

RECURSIVE trimStart(_)
trimStart(s) ==
    IF s = <<>> THEN s
    ELSE IF Head(s) \in WhiteSpace THEN trimStart(Tail(s)) ELSE s

RECURSIVE trimEnd(_)
trimEnd(s) ==
    IF s = <<>> THEN s
    ELSE IF s[Len(s)] \in WhiteSpace THEN trimEnd(SubSeq(s, 1, Len(s) - 1)) ELSE s

\* String.prototype.trim
trim(s) == trimEnd(trimStart(s))

\* JavaScript truthiness of a string: every string but '' is truthy.
Truthy(s) == s # <<>>

\* Truthiness of a value that may be undefined: a present, non-empty string.
TruthyOpt(o) == o # Null /\ o[1] # ""

TimerCount == LET S[r \in -1..TicksPerWindow] ==
                      IF r = -1 THEN 0 ELSE S[r - 1] + timers[r]
              IN  S[TicksPerWindow]

InFlightCount == inflight.gen + inflight.send

Step(op, branch, data) == [op |-> op, branch |-> branch, data |-> data]

-----------------------------------------------------------------------------
(* Initial state: the useState initial values *)

Init ==
    /\ activeTab = "generate"
    /\ formData = [prompt |-> <<>>, groqApiKey |-> <<>>, recipients |-> << <<>> >>,
                   senderEmail |-> <<>>, senderPassword |-> <<>>,
                   smtpServer |-> "smtp.gmail.com", smtpPort |-> 587]
    /\ generatedEmail = Null
    /\ loading = FALSE
    /\ notification = Null
    /\ timers = [r \in 0..TicksPerWindow |-> 0]
    /\ inflight = [gen |-> 0, send |-> 0]
    /\ age = 0
    /\ last = Step("init", "", <<>>)

-----------------------------------------------------------------------------
(* showNotification: sets the notification and schedules a callback that   *)
(* clears whatever notification is shown NotificationMs later.  No earlier *)
(* callback is cancelled.                                                  *)

\* A variant that schedules no callback.
showNotification_NoTimer(message, type) ==
    /\ TimerCount < MaxTimers
    /\ notification' = Some([message |-> message, type |-> type])
    /\ timers' = timers
    /\ age' = 0

showNotification(message, type) ==
    /\ TimerCount < MaxTimers
    /\ notification' = Some([message |-> message, type |-> type])
    /\ timers' = [timers EXCEPT ![TicksPerWindow] = @ + 1]
    /\ age' = 0

\* The callback of setTimeout: () => setNotification(null)
TimerFire ==
    /\ timers[0] > 0
    /\ timers' = [timers EXCEPT ![0] = @ - 1]
    /\ notification' = Null
    /\ age' = 0
    /\ last' = Step("timer", "", <<>>)
    /\ UNCHANGED <<activeTab, formData, generatedEmail, loading, inflight>>

\* Time passes by one tick; a callback that is due runs before time moves on.
Tick ==
    /\ timers[0] = 0
    /\ timers' = [r \in 0..TicksPerWindow |->
                     IF r = TicksPerWindow THEN 0 ELSE timers[r + 1]]
    /\ age' = IF notification = Null THEN 0
              ELSE IF age < TicksPerWindow THEN age + 1 ELSE age
    /\ last' = Step("tick", "", <<>>)
    /\ UNCHANGED <<activeTab, formData, generatedEmail, loading, notification, inflight>>

(* A whole expiry window passes with no other event: every pending        *)
(* callback has run, the last of them on whatever notification was shown.  *)
(* It is TicksPerWindow steps of Tick with the steps of TimerFire they     *)
(* make due.                                                               *)
WindowPasses ==
    /\ TimerCount > 0
    /\ timers' = [r \in 0..TicksPerWindow |-> 0]
    /\ notification' = Null
    /\ age' = 0
    /\ last' = Step("timer", "", <<>>)
    /\ UNCHANGED <<activeTab, formData, generatedEmail, loading, inflight>>

-----------------------------------------------------------------------------
(* Form handlers *)

handleInputChange(field, value) ==
    /\ formData' = [formData EXCEPT ![field] = value]
    /\ last' = Step("handleInputChange", "", <<>>)
    /\ UNCHANGED <<activeTab, generatedEmail, loading, notification, timers, inflight, age>>

\* A variant that opens the preview and send tabs only once an email exists.
setActiveTab_NeedsEmail(tab) ==
    /\ tab = "generate" \/ generatedEmail # Null
    /\ activeTab' = tab
    /\ last' = Step("setActiveTab", tab, <<>>)
    /\ UNCHANGED <<formData, generatedEmail, loading, notification, timers, inflight, age>>

\* onClick={() => setActiveTab(tab.id)} and the panels' jump buttons
setActiveTab(tab) ==
    /\ activeTab' = tab
    /\ last' = Step("setActiveTab", tab, <<>>)
    /\ UNCHANGED <<formData, generatedEmail, loading, notification, timers, inflight, age>>

-----------------------------------------------------------------------------
(* generateEmail, up to its await *)

\* The arguments of fetch in generateEmail.
GenerateRequest ==
    [url |-> "/api/generate-email",
     body |-> [prompt |-> formData.prompt, groq_api_key |-> formData.groqApiKey]]

\* A variant that tests the fields without trim.
promptOrKeyMissing_NoTrim == ~Truthy(formData.prompt) \/ ~Truthy(formData.groqApiKey)

\* !formData.prompt.trim() || !formData.groqApiKey.trim()
promptOrKeyMissing == ~Truthy(trim(formData.prompt)) \/ ~Truthy(trim(formData.groqApiKey))

generateEmail ==
    /\ IF promptOrKeyMissing
       THEN /\ showNotification(MsgNeedPromptAndKey, "error")
            /\ last' = Step("generateEmail", "invalid", <<>>)
            /\ UNCHANGED <<loading, inflight>>
       ELSE /\ InFlightCount < MaxInFlight
            /\ loading' = TRUE
            /\ inflight' = [inflight EXCEPT !.gen = @ + 1]
            /\ last' = Step("generateEmail", "fetch", GenerateRequest)
            /\ UNCHANGED <<notification, timers, age>>
    /\ UNCHANGED <<activeTab, formData, generatedEmail>>

(* A settled request.  reject: fetch itself fails (no response).  json =  *)
(* Null: the body is not JSON (it is empty).                               *)
Response(kind, status, json) == [kind |-> kind, status |-> status, json |-> json]

\* response.ok
ok(resp) == resp.kind = "response" /\ resp.status \in 200..299

Email1 == [subject |-> "Invoice Follow-up", content |-> "Hi team,..."]
Email2 == [subject |-> "Re: status", content |-> "Hello,"]

\* What the generation endpoint may answer.
GenerateResponses ==
    {Response("reject", 0, Null)}
    \cup {Response("response", st, Null) : st \in {200, 500}}
    \cup {Response("response", st, Some(e)) : st \in {200, 404, 500}, e \in {Email1, Email2}}

\* A variant without the test of response.ok.
generateSucceeds_IgnoresStatus(resp) == resp.kind = "response" /\ resp.json # Null

\* Whether the try block of generateEmail runs to its end on this response.
generateSucceeds(resp) == ok(resp) /\ resp.json # Null

\* A variant that opens the preview only if the generate tab is still shown.
generateEmailSettled_OnlyFromGenerateTab(resp) ==
    /\ inflight.gen > 0
    /\ inflight' = [inflight EXCEPT !.gen = @ - 1]
    /\ IF generateSucceeds(resp)
       THEN /\ generatedEmail' = Some(resp.json[1])
            /\ activeTab' = IF activeTab = "generate" THEN "preview" ELSE activeTab
            /\ showNotification(MsgGenerated, "success")
            /\ last' = Step("generateEmailSettled", "ok", resp)
       ELSE /\ showNotification(MsgGenerateFailed, "error")
            /\ last' = Step("generateEmailSettled", "failed", resp)
            /\ UNCHANGED <<generatedEmail, activeTab>>
    /\ loading' = FALSE
    /\ UNCHANGED formData

\* A variant that issues the request again when it has failed.
generateEmailSettled_Retries(resp) ==
    /\ inflight.gen > 0
    /\ IF generateSucceeds(resp)
       THEN /\ generatedEmail' = Some(resp.json[1])
            /\ activeTab' = "preview"
            /\ inflight' = [inflight EXCEPT !.gen = @ - 1]
            /\ showNotification(MsgGenerated, "success")
            /\ last' = Step("generateEmailSettled", "ok", resp)
       ELSE /\ showNotification(MsgGenerateFailed, "error")
            /\ last' = Step("generateEmailSettled", "failed", resp)
            /\ UNCHANGED <<generatedEmail, activeTab, inflight>>
    /\ loading' = FALSE
    /\ UNCHANGED formData

\* A variant that does not select the preview tab.
generateEmailSettled_KeepsTab(resp) ==
    /\ inflight.gen > 0
    /\ inflight' = [inflight EXCEPT !.gen = @ - 1]
    /\ IF generateSucceeds(resp)
       THEN /\ generatedEmail' = Some(resp.json[1])
            /\ showNotification(MsgGenerated, "success")
            /\ last' = Step("generateEmailSettled", "ok", resp)
       ELSE /\ showNotification(MsgGenerateFailed, "error")
            /\ last' = Step("generateEmailSettled", "failed", resp)
            /\ UNCHANGED generatedEmail
    /\ loading' = FALSE
    /\ UNCHANGED <<formData, activeTab>>

\* generateEmail after its awaits: the rest of try, then catch and finally.
generateEmailSettled(resp) ==
    /\ inflight.gen > 0
    /\ inflight' = [inflight EXCEPT !.gen = @ - 1]
    /\ IF generateSucceeds(resp)
       THEN /\ generatedEmail' = Some(resp.json[1])
            /\ activeTab' = "preview"
            /\ showNotification(MsgGenerated, "success")
            /\ last' = Step("generateEmailSettled", "ok", resp)
       ELSE /\ showNotification(MsgGenerateFailed, "error")
            /\ last' = Step("generateEmailSettled", "failed", resp)
            /\ UNCHANGED <<generatedEmail, activeTab>>
    /\ loading' = FALSE
    /\ UNCHANGED formData

-----------------------------------------------------------------------------
(* Recipient list handlers *)

handleRecipientChange(index, value) ==
    /\ index \in 1..Len(formData.recipients)
    /\ formData' = [formData EXCEPT !.recipients[index] = value]
    /\ last' = Step("handleRecipientChange", "", <<index, value>>)
    /\ UNCHANGED <<activeTab, generatedEmail, loading, notification, timers, inflight, age>>

addRecipient ==
    /\ Len(formData.recipients) < MaxRecipients
    /\ formData' = [formData EXCEPT !.recipients = Append(@, <<>>)]
    /\ last' = Step("addRecipient", "", <<>>)
    /\ UNCHANGED <<activeTab, generatedEmail, loading, notification, timers, inflight, age>>

\* A variant that always drops the last entry.
without_DropsLast(s, index) == [i \in 1..(Len(s) - 1) |-> s[i]]

\* Array.prototype.filter((_, i) => i !== index)
without(s, index) == [i \in 1..(Len(s) - 1) |-> IF i < index THEN s[i] ELSE s[i + 1]]

\* A variant that removes the slot even when it is the only one.
removeRecipient_AlwaysRemoves(index) ==
    /\ index \in 1..Len(formData.recipients)
    /\ formData' = [formData EXCEPT !.recipients = without(@, index)]
    /\ last' = Step("removeRecipient", "removed", <<index>>)
    /\ UNCHANGED <<activeTab, generatedEmail, loading, notification, timers, inflight, age>>

removeRecipient(index) ==
    /\ index \in 1..Len(formData.recipients)
    /\ IF Len(formData.recipients) > 1
       THEN /\ formData' = [formData EXCEPT !.recipients = without(@, index)]
            /\ last' = Step("removeRecipient", "removed", <<index>>)
       ELSE /\ UNCHANGED formData
            /\ last' = Step("removeRecipient", "only-slot", <<index>>)
    /\ UNCHANGED <<activeTab, generatedEmail, loading, notification, timers, inflight, age>>

-----------------------------------------------------------------------------
(* sendEmail, up to its await *)

\* A variant that keeps every entry that is not ''.
validRecipient_NoTrim(email) == Truthy(email)

\* The test of formData.recipients.filter(email => email.trim())
validRecipient(email) == Truthy(trim(email))

validRecipients == SelectSeq(formData.recipients, validRecipient)

\* A variant that sends the recipient list as the form holds it.
SendRequest_Unfiltered ==
    [url |-> "/api/send-email-smtp",
     body |-> [recipients |-> formData.recipients,
               subject |-> generatedEmail[1].subject,
               content |-> generatedEmail[1].content,
               sender_email |-> formData.senderEmail,
               sender_password |-> formData.senderPassword,
               smtp_server |-> formData.smtpServer,
               smtp_port |-> formData.smtpPort]]

\* The arguments of fetch in sendEmail.
SendRequest ==
    [url |-> "/api/send-email-smtp",
     body |-> [recipients |-> validRecipients,
               subject |-> generatedEmail[1].subject,
               content |-> generatedEmail[1].content,
               sender_email |-> formData.senderEmail,
               sender_password |-> formData.senderPassword,
               smtp_server |-> formData.smtpServer,
               smtp_port |-> formData.smtpPort]]

\* A variant that tests the sender address only.
senderMissing_EmailOnly == ~Truthy(formData.senderEmail)

\* !formData.senderEmail || !formData.senderPassword
senderMissing == ~Truthy(formData.senderEmail) \/ ~Truthy(formData.senderPassword)

sendEmail ==
    /\ IF generatedEmail = Null
       THEN /\ last' = Step("sendEmail", "no-email", <<>>)
            /\ UNCHANGED <<loading, inflight, notification, timers, age>>
       ELSE IF Len(validRecipients) = 0
       THEN /\ showNotification(MsgNeedRecipient, "error")
            /\ last' = Step("sendEmail", "no-recipient", <<>>)
            /\ UNCHANGED <<loading, inflight>>
       ELSE IF senderMissing
       THEN /\ showNotification(MsgNeedSender, "error")
            /\ last' = Step("sendEmail", "no-sender", <<>>)
            /\ UNCHANGED <<loading, inflight>>
       ELSE /\ InFlightCount < MaxInFlight
            /\ loading' = TRUE
            /\ inflight' = [inflight EXCEPT !.send = @ + 1]
            /\ last' = Step("sendEmail", "fetch", SendRequest)
            /\ UNCHANGED <<notification, timers, age>>
    /\ UNCHANGED <<activeTab, formData, generatedEmail>>

\* A body of the delivery endpoint: an object whose detail and sent_to may be absent.
SendBody(detail, sent_to) == [detail |-> detail, sent_to |-> sent_to]

\* The answers of the delivery endpoint that confirm recipients.
SendOkResponses ==
    {Response("response", 200, Some(SendBody(Null, Some(l)))) :
        l \in {<<>>, <<"a@x.com">>, <<"a@x.com", "b@x.com">>}}

\* Its other answers: no response, an error status with or without a body
\* or a detail, a success status without a body or without sent_to.
SendErrorResponses ==
    {Response("reject", 0, Null)}
    \cup {Response("response", st, Null) : st \in {200, 500}}
    \cup {Response("response", 200, Some(SendBody(Null, Null)))}
    \cup {Response("response", 500, Some(SendBody(d, Null))) :
            d \in {Null, Some(""), Some("auth failed")}}

SendResponses == SendOkResponses \cup SendErrorResponses

\* One answer of each kind.
SendResponsesBrief ==
    {Response("response", 200, Some(SendBody(Null, Some(<<"a@x.com">>)))),
     Response("response", 500, Some(SendBody(Some("auth failed"), Null)))}

Success(message) == [message |-> message, type |-> "success"]
Failure(message) == [message |-> message, type |-> "error"]

\* `Email sent successfully to ${data.sent_to.length} recipient(s)!`
MsgSent(n) == "Email sent successfully to " \o ToString(n) \o " recipient(s)!"

\* A variant that always shows the fallback text.
caught_AlwaysFallback(message) == Failure(MsgSendFailed)

\* error.message || 'Failed to send email'
caught(message) == Failure(IF message # "" THEN message ELSE MsgSendFailed)

\* A variant that reports the number of recipients submitted.
sendOutcome_CountsSubmitted(resp) ==
    IF resp.kind = "reject" THEN caught(MsgFetchRejected)
    ELSE IF resp.json = Null THEN caught(MsgJsonSyntax)
    ELSE IF ~ok(resp)
         THEN caught(IF TruthyOpt(resp.json[1].detail)
                     THEN resp.json[1].detail[1] ELSE MsgSendFailed)
    ELSE IF resp.json[1].sent_to = Null THEN caught(MsgNoLength)
    ELSE Success(MsgSent(Len(validRecipients)))

(* The notification sendEmail raises once its request has settled: what    *)
(* the rest of try throws or shows, and what catch makes of it.            *)
sendOutcome(resp) ==
    IF resp.kind = "reject" THEN caught(MsgFetchRejected)
    ELSE IF resp.json = Null THEN caught(MsgJsonSyntax)
    ELSE IF ~ok(resp)
         THEN caught(IF TruthyOpt(resp.json[1].detail)
                     THEN resp.json[1].detail[1] ELSE MsgSendFailed)
    ELSE IF resp.json[1].sent_to = Null THEN caught(MsgNoLength)
    ELSE Success(MsgSent(Len(resp.json[1].sent_to[1])))

\* A variant that discards the generated email once it has been sent.
sendEmailSettled_ClearsEmail(resp) ==
    /\ inflight.send > 0
    /\ inflight' = [inflight EXCEPT !.send = @ - 1]
    /\ showNotification(sendOutcome(resp).message, sendOutcome(resp).type)
    /\ last' = Step("sendEmailSettled", sendOutcome(resp).type, resp)
    /\ loading' = FALSE
    /\ generatedEmail' = IF sendOutcome(resp).type = "success" THEN Null ELSE generatedEmail
    /\ UNCHANGED <<activeTab, formData>>

\* A variant whose loading flag is cleared on the success path only.
sendEmailSettled_StuckOnFailure(resp) ==
    /\ inflight.send > 0
    /\ inflight' = [inflight EXCEPT !.send = @ - 1]
    /\ showNotification(sendOutcome(resp).message, sendOutcome(resp).type)
    /\ last' = Step("sendEmailSettled", sendOutcome(resp).type, resp)
    /\ loading' = IF sendOutcome(resp).type = "success" THEN FALSE ELSE loading
    /\ UNCHANGED <<activeTab, formData, generatedEmail>>

\* sendEmail after its awaits: the rest of try, then catch and finally.
sendEmailSettled(resp) ==
    /\ inflight.send > 0
    /\ inflight' = [inflight EXCEPT !.send = @ - 1]
    /\ showNotification(sendOutcome(resp).message, sendOutcome(resp).type)
    /\ last' = Step("sendEmailSettled", sendOutcome(resp).type, resp)
    /\ loading' = FALSE
    /\ UNCHANGED <<activeTab, formData, generatedEmail>>

-----------------------------------------------------------------------------
(* Generation: the prompt and key fields, generateEmail and its            *)
(* settlement, tab selection and notification expiry.                      *)

GenInputs == {"prompt", "groqApiKey"} \X TextValues

NextGen ==
    \/ \E in \in GenInputs : handleInputChange(in[1], in[2])
    \/ \E tab \in Tabs : setActiveTab(tab)
    \/ generateEmail
    \/ \E resp \in GenerateResponses : generateEmailSettled(resp)
    \/ TimerFire
    \/ Tick

SpecGen == Init /\ [][NextGen]_vars

-----------------------------------------------------------------------------
(* Delivery: one valid prompt and key and one generated email, then the    *)
(* sender fields, the recipient list, sendEmail and its settlement.  Time  *)
(* passes by whole windows: sendEmail reads neither the notification nor   *)
(* the pending callbacks.                                                  *)

SendInputs ==
    {<<"prompt", <<"a">> >>, <<"groqApiKey", <<"a">> >>}
    \cup ({"senderEmail"} \X {<<>>, <<" ">>, <<"a">>})
    \cup ({"senderPassword"} \X {<<>>, <<"a">>})

NextSend ==
    \/ \E in \in SendInputs : handleInputChange(in[1], in[2])
    \/ \E i \in 1..MaxRecipients, v \in RecipientValues : handleRecipientChange(i, v)
    \/ addRecipient
    \/ \E i \in 1..MaxRecipients : removeRecipient(i)
    \/ generateEmail
    \/ generateEmailSettled(Response("response", 200, Some(Email1)))
    \/ sendEmail
    \/ \E resp \in SendResponsesBrief : sendEmailSettled(resp)
    \/ WindowPasses

SpecSend == Init /\ [][NextSend]_vars

-----------------------------------------------------------------------------
(* Settlement of a delivery: one valid form, every answer of the delivery  *)
(* endpoint, tab selection.                                                *)

SettleInputs == {"prompt", "groqApiKey", "senderEmail", "senderPassword"} \X {<<"a">>}

NextSettle ==
    \/ \E in \in SettleInputs : handleInputChange(in[1], in[2])
    \/ handleRecipientChange(1, <<"a">>)
    \/ \E tab \in Tabs : setActiveTab(tab)
    \/ generateEmail
    \/ generateEmailSettled(Response("response", 200, Some(Email1)))
    \/ sendEmail
    \/ \E resp \in SendResponses : sendEmailSettled(resp)
    \/ TimerFire
    \/ Tick

SpecSettle == Init /\ [][NextSettle]_vars

-----------------------------------------------------------------------------
(* Requests that settle: one valid form, both requests, one answer of each *)
(* kind (success, error status, rejected fetch) and notification expiry.   *)
(* A pending fetch settles or rejects and a pending timeout runs whatever  *)
(* else the user does; settlement is given strong fairness because the cap *)
(* on pending timers can withhold it for a while.                          *)

GenerateAnswers ==
    {Response("response", 200, Some(Email1)),
     Response("response", 500, Null),
     Response("reject", 0, Null)}

SendAnswers ==
    {Response("response", 200, Some(SendBody(Null, Some(<<"a@x.com">>)))),
     Response("response", 500, Some(SendBody(Some("auth failed"), Null))),
     Response("reject", 0, Null)}

SettleGenerate == \E resp \in GenerateAnswers : generateEmailSettled(resp)
SettleSend == \E resp \in SendAnswers : sendEmailSettled(resp)

NextLive ==
    \/ \E in \in SettleInputs : handleInputChange(in[1], in[2])
    \/ handleRecipientChange(1, <<"a">>)
    \/ generateEmail
    \/ SettleGenerate
    \/ sendEmail
    \/ SettleSend
    \/ TimerFire
    \/ Tick

SpecLive ==
    /\ Init /\ [][NextLive]_vars
    /\ WF_vars(Tick)
    /\ WF_vars(TimerFire)
    /\ SF_vars(SettleGenerate)
    /\ SF_vars(SettleSend)

-----------------------------------------------------------------------------
(* Every kind of step next to tab selection: field edits, the recipient    *)
(* mutators, both requests with one answer of each kind, and expiry.       *)

NextStage ==
    \/ \E in \in SettleInputs : handleInputChange(in[1], in[2])
    \/ handleRecipientChange(1, <<"a">>)
    \/ addRecipient
    \/ removeRecipient(1)
    \/ \E tab \in Tabs : setActiveTab(tab)
    \/ generateEmail
    \/ SettleGenerate
    \/ sendEmail
    \/ SettleSend
    \/ WindowPasses

SpecStage == Init /\ [][NextStage]_vars

-----------------------------------------------------------------------------
(* Editing the form: every recipient mutator at every index, the server    *)
(* fields, and one generation so that the mutators also run with an email  *)
(* present, on the preview tab and while a request is outstanding.         *)

FormInputs ==
    {<<"prompt", <<"a">> >>, <<"groqApiKey", <<"a">> >>,
     <<"smtpServer", "smtp.example.com">>, <<"smtpPort", 465>>}

NextForm ==
    \/ \E in \in FormInputs : handleInputChange(in[1], in[2])
    \/ \E i \in 1..MaxRecipients, v \in RecipientValues : handleRecipientChange(i, v)
    \/ addRecipient
    \/ \E i \in 1..MaxRecipients : removeRecipient(i)
    \/ generateEmail
    \/ generateEmailSettled(Response("response", 200, Some(Email1)))
    \/ WindowPasses

SpecForm == Init /\ [][NextForm]_vars

-----------------------------------------------------------------------------
(* The whole component.  The specifications above are this one with fewer  *)
(* inputs (and, in SpecSend, with time passing by whole windows).          *)

Inputs ==
    ({"prompt", "groqApiKey", "senderEmail", "senderPassword"} \X TextValues)
    \cup ({"smtpServer"} \X {"smtp.gmail.com", "smtp.example.com"})
    \cup ({"smtpPort"} \X {587, 465})

Next ==
    \/ \E in \in Inputs : handleInputChange(in[1], in[2])
    \/ \E i \in 1..MaxRecipients, v \in RecipientValues : handleRecipientChange(i, v)
    \/ addRecipient
    \/ \E i \in 1..MaxRecipients : removeRecipient(i)
    \/ \E tab \in Tabs : setActiveTab(tab)
    \/ generateEmail
    \/ \E resp \in GenerateResponses : generateEmailSettled(resp)
    \/ sendEmail
    \/ \E resp \in SendResponses : sendEmailSettled(resp)
    \/ TimerFire
    \/ Tick

Spec == Init /\ [][Next]_vars

-----------------------------------------------------------------------------
(* Vocabulary of the properties, stated without the model's helpers *)

\* Empty or made of whitespace only.
IsBlank(s) == \A i \in 1..Len(s) : s[i] \in WhiteSpace

AllRecipientsBlank == \A i \in 1..Len(formData.recipients) : IsBlank(formData.recipients[i])

\* This step raised a notification (and so scheduled one more expiry).
Raised ==
    /\ notification' # Null
    /\ timers'[TicksPerWindow] = timers[TicksPerWindow] + 1

RaisedOfType(type) == Raised /\ notification'[1].type = type

\* This step raised nothing.
NothingRaised == notification' = notification /\ timers' = timers

\* This step issued no request.
NoRequest == inflight' = inflight

\* This step is a call of sendEmail, of generateEmail, or a settlement.
SendStep == last'.op = "sendEmail"
GenerateStep == last'.op = "generateEmail"
GenerateSettledStep == last'.op = "generateEmailSettled"
SendSettledStep == last'.op = "sendEmailSettled"

\* The indices of the entries of rs that are not blank.
NonBlankIndices(rs) == {i \in 1..Len(rs) : ~IsBlank(rs[i])}

\* sent is rs without its blank entries, the others in their order.
IsNonBlankSubsequence(sent, rs) ==
    \E f \in [1..Len(sent) -> NonBlankIndices(rs)] :
        /\ \A i \in NonBlankIndices(rs) : \E k \in 1..Len(sent) : f[k] = i
        /\ \A k, l \in 1..Len(sent) : k < l => f[k] < f[l]
        /\ \A k \in 1..Len(sent) : sent[k] = rs[f[k]]

-----------------------------------------------------------------------------
(* C1.  At most one remote call, generation or delivery, is outstanding in *)
(* every reachable state.  Checked under SpecSend; the code violates it:   *)
(* neither generateEmail nor sendEmail reads loading.                      *)
C1_AtMostOneOutstanding == InFlightCount <= 1

(* C2, as stated.  A call of sendEmail with a failed precondition          *)
(* (generatedEmail absent, or every recipient blank, or a sender field     *)
(* empty) raises an error notification.  Violated when generatedEmail is   *)
(* absent: the handler returns without a notification.                     *)
C2_EveryFailedPreconditionNotifies ==
    [][(SendStep /\ (\/ generatedEmail = Null
                     \/ AllRecipientsBlank
                     \/ formData.senderEmail = <<>>
                     \/ formData.senderPassword = <<>>))
        => RaisedOfType("error")]_vars

(* C2, amended.  With generatedEmail present, a call of sendEmail whose    *)
(* recipients are all blank raises the recipient error, and one with a     *)
(* non-blank recipient and an empty sender field raises the sender error;  *)
(* with generatedEmail absent the call raises no notification.  No such    *)
(* call issues a request.                                                  *)
C2_FailedPreconditionNotifiesUnlessNoEmail ==
    [][SendStep =>
        /\ generatedEmail = Null => NothingRaised /\ NoRequest
        /\ (generatedEmail # Null /\ AllRecipientsBlank)
             => /\ Raised /\ NoRequest
                /\ notification' = Some(Failure(MsgNeedRecipient))
        /\ (/\ generatedEmail # Null /\ ~AllRecipientsBlank
            /\ (formData.senderEmail = <<>> \/ formData.senderPassword = <<>>))
             => /\ Raised /\ NoRequest
                /\ notification' = Some(Failure(MsgNeedSender))]_vars

\* sendEmail has just raised the sender error: an email is there, a recipient
\* is not blank, and the password is empty.
C2_Witness ==
    /\ last.op = "sendEmail"
    /\ generatedEmail # Null
    /\ ~AllRecipientsBlank
    /\ formData.senderEmail # <<>> /\ formData.senderPassword = <<>>
    /\ notification = Some(Failure(MsgNeedSender))
    /\ timers[TicksPerWindow] > 0

(* C3.  A delivery that settles with a non-success status and no body      *)
(* raises the error notification 'Failed to send email'.  Checked under    *)
(* SpecSettle; the code violates it: response.json() throws on the empty   *)
(* body and catch shows that error's message.                              *)
C3_NoBodyYieldsFallback ==
    [][(/\ SendSettledStep
        /\ last'.data.kind = "response"
        /\ last'.data.status \notin 200..299
        /\ last'.data.json = Null)
        => notification' = Some(Failure(MsgSendFailed))]_vars

(* C4.  A notification stays visible for a whole expiry window unless a    *)
(* newer one replaces it: it is cleared only once TicksPerWindow ticks     *)
(* have passed since it was raised.  Checked under SpecGen; the code       *)
(* violates it: the callback of an earlier showNotification clears a later *)
(* notification.                                                           *)
C4_ClearedOnlyAfterWindow ==
    [][(notification # Null /\ notification' = Null) => age >= TicksPerWindow]_vars

(* C5.  A call of generateEmail with a blank prompt or a blank key issues  *)
(* no request, raises an error notification and leaves activeTab,          *)
(* generatedEmail and loading as they were.                                *)
C5_BlankGenerationRejected ==
    [][(GenerateStep /\ (IsBlank(formData.prompt) \/ IsBlank(formData.groqApiKey)))
        => /\ NoRequest
           /\ RaisedOfType("error")
           /\ activeTab' = activeTab
           /\ generatedEmail' = generatedEmail
           /\ loading' = loading]_vars

\* generateEmail has just refused a whitespace-only prompt, the key being given.
C5_Witness ==
    /\ last.op = "generateEmail"
    /\ formData.prompt = <<" ">>
    /\ ~IsBlank(formData.groqApiKey)
    /\ notification = Some(Failure(MsgNeedPromptAndKey))
    /\ InFlightCount = 0
    /\ ~loading

(* C6.  A call of sendEmail issues no request when generatedEmail is       *)
(* absent, and none when every recipient entry is empty or whitespace      *)
(* only, whatever the other fields hold.                                   *)
C6_NoEmailOrNoRecipientNoRequest ==
    [][(SendStep /\ (generatedEmail = Null \/ AllRecipientsBlank))
        => NoRequest /\ loading' = loading]_vars

\* sendEmail has just run with an email, both sender fields given and only
\* blank recipients, one of them whitespace; nothing is outstanding.
C6_Witness ==
    /\ last.op = "sendEmail"
    /\ generatedEmail # Null
    /\ Len(formData.recipients) = 2
    /\ formData.recipients[2] = <<" ">>
    /\ AllRecipientsBlank
    /\ formData.senderEmail = <<"a">> /\ formData.senderPassword = <<"a">>
    /\ InFlightCount = 0

(* C7.  A call of sendEmail issues no request when senderEmail or          *)
(* senderPassword is blank: empty or whitespace only.  Checked under       *)
(* SpecSend; the code violates it: the sender fields are tested without    *)
(* trim, so a whitespace-only sender field passes.                         *)
C7_BlankSenderNoRequest ==
    [][(SendStep /\ (IsBlank(formData.senderEmail) \/ IsBlank(formData.senderPassword)))
        => NoRequest]_vars

(* C8.  When a generation settles with a success status and a body         *)
(* {subject, content}, afterwards activeTab is preview, generatedEmail is  *)
(* that subject and content, a success notification has been raised and    *)
(* loading is false.                                                       *)
C8_GenerationSuccess ==
    [][(/\ GenerateSettledStep
        /\ last'.data.kind = "response"
        /\ last'.data.status \in 200..299
        /\ last'.data.json # Null)
        => /\ activeTab' = "preview"
           /\ generatedEmail' # Null
           /\ generatedEmail'[1].subject = last'.data.json[1].subject
           /\ generatedEmail'[1].content = last'.data.json[1].content
           /\ RaisedOfType("success")
           /\ loading' = FALSE]_vars

\* A generation has just settled with status 200 and Email2: the tab is
\* preview, the email is Email2 and the success notification is shown.
C8_Witness ==
    /\ last.op = "generateEmailSettled"
    /\ last.data.status = 200
    /\ last.data.json = Some(Email2)
    /\ generatedEmail = Some(Email2)
    /\ activeTab = "preview"
    /\ notification # Null /\ notification[1].type = "success"
    /\ ~loading

(* C9.  When a generation settles with a network error or a non-success    *)
(* status, generatedEmail and activeTab are as before the settlement, the  *)
(* error notification with the one generic message is raised, whatever     *)
(* the status, and loading is false.                                       *)
C9_GenerationFailure ==
    [][(/\ GenerateSettledStep
        /\ (last'.data.kind = "reject" \/ last'.data.status \notin 200..299))
        => /\ generatedEmail' = generatedEmail
           /\ activeTab' = activeTab
           /\ Raised
           /\ notification' = Some(Failure(MsgGenerateFailed))
           /\ loading' = FALSE]_vars

\* A generation has just settled with status 404 and a body, an earlier
\* email being kept and the user still on the send tab.
C9_Witness ==
    /\ last.op = "generateEmailSettled"
    /\ last.data.status = 404
    /\ last.data.json = Some(Email2)
    /\ generatedEmail = Some(Email1)
    /\ activeTab = "send"
    /\ notification = Some(Failure(MsgGenerateFailed))
    /\ ~loading

(* C10.  The recipients of a delivery request are the entries of           *)
(* formData.recipients that are not blank, all of them and in their        *)
(* order.                                                                  *)
C10_RecipientsSentAreNonBlankInOrder ==
    [][(SendStep /\ inflight'.send = inflight.send + 1)
        => IsNonBlankSubsequence(last'.data.body.recipients, formData.recipients)]_vars

\* sendEmail has just issued a request for the list ["a", " "]: only "a" is sent.
C10_Witness ==
    /\ last.op = "sendEmail"
    /\ last.branch = "fetch"
    /\ formData.recipients = << <<"a">>, <<" ">> >>
    /\ last.data.body.recipients = << <<"a">> >>
    /\ inflight.send > 0

-----------------------------------------------------------------------------
\* C11: the recipients list has at least one entry in every reachable state,
\* whatever sequence of handleRecipientChange, addRecipient and
\* removeRecipient calls is made, and removeRecipient on a one-element list
\* changes nothing at all.
C11_RecipientsNeverEmpty ==
    /\ [](Len(formData.recipients) >= 1)
    /\ [][(last'.op = "removeRecipient" /\ Len(formData.recipients) = 1)
            => UNCHANGED <<formData, activeTab, generatedEmail, loading,
                           notification, inflight>>]_vars

\* removeRecipient was just called on a list holding a single, filled entry:
\* the entry is still there.
C11_Witness ==
    /\ last.op = "removeRecipient"
    /\ last.branch = "only-slot"
    /\ formData.recipients = << <<"b">> >>

-----------------------------------------------------------------------------
\* C12: a call of generateEmail or sendEmail made while a request is in
\* flight is silently ignored: it issues no request, raises no notification,
\* and leaves the tab, the generated email, the form and the loading flag
\* unchanged, whatever the form holds at that moment.
C12_InFlightInvocationIgnored ==
    [][((GenerateStep \/ SendStep) /\ loading)
        => /\ NoRequest
           /\ NothingRaised
           /\ UNCHANGED <<activeTab, generatedEmail, formData, loading>>]_vars

-----------------------------------------------------------------------------
\* C13: when a delivery request settles with a success status and a body
\* carrying sent_to, a success notification is raised whose count is the
\* length of sent_to (not the number of recipients in the form), the tab is
\* unchanged and the loading flag is cleared.
C13_DeliverySuccess ==
    [][(/\ SendSettledStep
        /\ last'.data.kind = "response"
        /\ last'.data.status \in 200..299
        /\ last'.data.json # Null
        /\ last'.data.json[1].sent_to # Null)
        => LET n == Len(last'.data.json[1].sent_to[1])
               count == IF n = 0 THEN "0" ELSE IF n = 1 THEN "1" ELSE "2"
           IN /\ n <= 2
              /\ RaisedOfType("success")
              /\ notification'[1].message
                    = "Email sent successfully to " \o count \o " recipient(s)!"
              /\ activeTab' = activeTab
              /\ loading' = FALSE]_vars

\* A delivery of one recipient has just settled with two confirmed
\* addresses, on the send tab.
C13_Witness ==
    /\ last.op = "sendEmailSettled"
    /\ last.data.kind = "response"
    /\ last.data.status = 200
    /\ last.data.json # Null
    /\ last.data.json[1].sent_to = Some(<<"a@x.com", "b@x.com">>)
    /\ Len(formData.recipients) = 1
    /\ notification = Some(Success("Email sent successfully to 2 recipient(s)!"))
    /\ activeTab = "send"
    /\ ~loading

-----------------------------------------------------------------------------
\* C14: when a delivery request settles with a non-success status and a body
\* whose detail is a non-empty string, an error notification is raised whose
\* message is exactly that detail; the tab and the generated email are
\* unchanged and the loading flag is cleared.
C14_DeliveryErrorShowsDetail ==
    [][(/\ SendSettledStep
        /\ last'.data.kind = "response"
        /\ last'.data.status \notin 200..299
        /\ last'.data.json # Null
        /\ last'.data.json[1].detail # Null
        /\ last'.data.json[1].detail[1] # "")
        => /\ RaisedOfType("error")
           /\ notification'[1].message = last'.data.json[1].detail[1]
           /\ activeTab' = activeTab
           /\ generatedEmail' = generatedEmail
           /\ loading' = FALSE]_vars

\* A delivery has just settled with status 500 and the detail "auth failed".
C14_Witness ==
    /\ last.op = "sendEmailSettled"
    /\ last.data.status = 500
    /\ last.data.json # Null
    /\ last.data.json[1].detail = Some("auth failed")
    /\ notification = Some(Failure("auth failed"))
    /\ generatedEmail = Some(Email1)
    /\ ~loading

-----------------------------------------------------------------------------
\* C15: every settlement of a request (success, error status or rejected
\* fetch) clears the loading flag and raises a notification of that
\* settlement's outcome, so no failure leaves the flag set; when requests
\* settle, a set loading flag is always eventually cleared.
C15_SettlementClearsLoading ==
    /\ [][(GenerateSettledStep \/ SendSettledStep)
            => /\ loading' = FALSE
               /\ Raised
               /\ SendSettledStep => notification'[1].type = last'.branch
               /\ GenerateSettledStep =>
                    notification'[1].type
                        = (IF last'.branch = "ok" THEN "success" ELSE "error")]_vars
    /\ loading ~> ~loading

\* A delivery whose fetch was rejected has just settled: nothing is in
\* flight, the flag is clear and an error is shown.
C15_Witness ==
    /\ last.op = "sendEmailSettled"
    /\ last.data.kind = "reject"
    /\ InFlightCount = 0
    /\ ~loading
    /\ notification = Some(Failure(MsgFetchRejected))

-----------------------------------------------------------------------------
\* C16: at most one notification is shown in any state, and a notification
\* that is shown always has its own expiry callback pending, due when the
\* window measured from its creation ends: it is cleared no later than that
\* unless a newer one has replaced it; when timers run, a shown notification
\* always eventually disappears.
C16_NotificationExpires ==
    /\ [](/\ Len(notification) <= 1
          /\ notification # Null =>
                /\ age \in 0..TicksPerWindow
                /\ timers[TicksPerWindow - age] > 0)
    /\ (notification # Null) ~> (notification = Null)

\* A notification has been shown for a whole window and its callback is due.
C16_Witness ==
    /\ notification # Null
    /\ age = TicksPerWindow
    /\ timers[0] = 1
    /\ last.op = "tick"

-----------------------------------------------------------------------------
\* C17: no call of sendEmail and no settlement of a delivery, whatever its
\* outcome, changes the generated email; it is absent at the start and every
\* change of it is made by a generation that settles successfully, which
\* stores the body of its response.
C17_DeliveryKeepsEmail ==
    /\ generatedEmail = Null
    /\ [][/\ (SendStep \/ SendSettledStep) => generatedEmail' = generatedEmail
          /\ generatedEmail' # generatedEmail =>
                /\ GenerateSettledStep
                /\ last'.data.kind = "response"
                /\ last'.data.status \in 200..299
                /\ generatedEmail' = last'.data.json
                /\ generatedEmail' # Null]_vars

\* A delivery has just settled successfully and the generated email is the
\* one the generation returned.
C17_Witness ==
    /\ last.op = "sendEmailSettled"
    /\ last.branch = "success"
    /\ generatedEmail = Some(Email1)

-----------------------------------------------------------------------------
\* C18: in every reachable state, also with no generated email and while a
\* request is in flight, each of the three tabs can be selected; selecting a
\* tab makes it the active one and changes nothing else: the form, the
\* generated email, the loading flag and the notification stay as they were.
C18_TabSelectionIsFree ==
    /\ [](\A tab \in Tabs : ENABLED setActiveTab(tab))
    /\ [][last'.op = "setActiveTab"
            => /\ last'.branch \in Tabs
               /\ activeTab' = last'.branch
               /\ UNCHANGED <<formData, generatedEmail, loading, notification,
                              timers, inflight>>]_vars

\* The send tab has just been selected with no generated email, while a
\* generation is in flight and its validation error of before is shown.
C18_Witness ==
    /\ last.op = "setActiveTab"
    /\ activeTab = "send"
    /\ generatedEmail = Null
    /\ loading
    /\ inflight.gen > 0
    /\ notification # Null

-----------------------------------------------------------------------------
\* C19: a call of generateEmail or sendEmail that passes validation issues
\* exactly one request, a rejected call issues none, and a settlement,
\* failed or not, ends exactly one request and issues no other: requests
\* are never issued by anything but an accepted call.
C19_OneRequestPerInvocation ==
    [][/\ (GenerateStep /\ last'.branch = "fetch")
            => /\ inflight' = [inflight EXCEPT !.gen = @ + 1]
               /\ ~IsBlank(formData.prompt) /\ ~IsBlank(formData.groqApiKey)
       /\ (SendStep /\ last'.branch = "fetch")
            => /\ inflight' = [inflight EXCEPT !.send = @ + 1]
               /\ generatedEmail # Null /\ ~AllRecipientsBlank
       /\ ((GenerateStep \/ SendStep) /\ last'.branch # "fetch") => NoRequest
       /\ GenerateSettledStep => inflight' = [inflight EXCEPT !.gen = @ - 1]
       /\ SendSettledStep => inflight' = [inflight EXCEPT !.send = @ - 1]
       /\ ~(GenerateStep \/ SendStep \/ GenerateSettledStep \/ SendSettledStep)
            => NoRequest]_vars

\* The only generation request has just failed, and nothing is in flight.
C19_Witness ==
    /\ last.op = "generateEmailSettled"
    /\ last.branch = "failed"
    /\ last.data.kind = "reject"
    /\ InFlightCount = 0

-----------------------------------------------------------------------------
-----------------------------------------------------------------------------
\* C21: the loading flag is set in every reachable state in which a
\* generation or delivery request has been issued and has not yet settled.
C21_LoadingWhileOutstanding == InFlightCount > 0 => loading

-----------------------------------------------------------------------------
\* C22: the active tab is "generate" at the start and changes only by a tab
\* selection or by a generation that settles successfully, which makes it
\* "preview" whatever tab is shown at that moment; validation failures,
\* failed generations, every delivery outcome, the recipient mutators, field
\* edits and notification expiry leave it unchanged.
C22_TabChangesOnlyBySelectionOrGeneration ==
    /\ activeTab = "generate"
    /\ [][LET GenerationSucceeded ==
                /\ GenerateSettledStep
                /\ last'.data.kind = "response"
                /\ last'.data.status \in 200..299
                /\ last'.data.json # Null
          IN /\ activeTab' # activeTab
                    => last'.op = "setActiveTab" \/ GenerationSucceeded
             /\ GenerationSucceeded => activeTab' = "preview"
             /\ last'.op \in {"generateEmail", "sendEmail", "sendEmailSettled",
                              "handleInputChange", "handleRecipientChange",
                              "addRecipient", "removeRecipient", "timer"}
                    => activeTab' = activeTab
             /\ (GenerateSettledStep /\ ~GenerationSucceeded)
                    => activeTab' = activeTab]_vars

\* A generation has just settled successfully, after a recipient slot was
\* added to the form: the preview tab is shown.
C22_Witness ==
    /\ last.op = "generateEmailSettled"
    /\ last.branch = "ok"
    /\ activeTab = "preview"
    /\ generatedEmail = Some(Email1)
    /\ Len(formData.recipients) = 2

====
